---- MODULE Spec2Model ----
(***************************************************************************)
(* access.py: set two endpoint variables in os.environ, build a            *)
(* ManagedIdentityCredential, build a SecretClient on a fixed vault URL,   *)
(* get the secret "my-onprem-secret" and print its value.                  *)
(*                                                                         *)
(* A string that the script only passes around (a URL, a variable name) is *)
(* a TLA+ string.  A string the script computes with (the secret value,    *)
(* the printed text) is a sequence of one-character strings, so that       *)
(* concatenation and line counting are real operations.                    *)
(* An optional value is a sequence of length 0 (None / unbound) or 1.      *)
(***************************************************************************)
EXTENDS Naturals, Sequences, FiniteSets

VARIABLES
    pc,             \* next line of access.py to execute, "exited", or "idle"
    environ,        \* os.environ of the running process
    credentials,    \* module global `credentials`  (optional)
    secret_client,  \* module global `secret_client` (optional)
    secret,         \* module global `secret`        (optional)
    stdout,         \* characters written to standard output
    stderr,         \* exception reports written to standard error
    raised,         \* the exception that left the script, or NoError
    exit,           \* process exit status (optional: unset while running)
    trace,          \* history: the lines executed so far in this run
    environ0,       \* history: the environment the process started with
    agent,          \* external: the local identity agent
    vault,          \* external: the vault service
    stored,         \* external: the vault's content under the secret name
    hangAt,         \* external: which blocking call never returns
    runNo,          \* number of the current invocation
    prev            \* history: a remembered earlier invocation (optional)

vars == <<pc, environ, credentials, secret_client, secret, stdout, stderr,
          raised, exit, trace, environ0, agent, vault, stored, hangAt,
          runNo, prev>>

---------------------------------------------------------------------------
(* Bounds *)

\* number of invocations of the script in one behaviour
MaxRuns == 2

---------------------------------------------------------------------------
(* Optional values *)

None == <<>>
Some(x) == <<x>>

---------------------------------------------------------------------------
(* Literals of the script *)

IdentityUrl == "http://localhost:40342/metadata/identity/oauth2/token"
ImdsUrl == "http://localhost:40342"
VaultUrl == "https://passwordless-arc-mi.vault.azure.net"
SecretName == "my-onprem-secret"
\* "KeyVault secret is: "
Prefix == <<"K","e","y","V","a","u","l","t"," ","s","e","c","r","e","t"," ","i","s",":"," ">>

NoError == "NoError"
Lines == <<"l5", "l6", "l8", "l11", "l13", "l14">>
Exited == "exited"

---------------------------------------------------------------------------
(* Inputs *)

\* secret values: empty, one line, two lines
Strings == {<<>>, <<"h", "i">>, <<"a", "\n", "b">>}
\* what the vault may hold under the name: nothing, or a bundle whose value
\* attribute is a str or (the client library types it Optional) None
Stored == {None} \cup {Some(None)} \cup {Some(Some(s)) : s \in Strings}
EnvKeys == {"IDENTITY_ENDPOINT", "IMDS_ENDPOINT", "PATH"}
Environs == {e \in [EnvKeys -> {None, Some("http://elsewhere"), Some("/usr/bin")}] :
                /\ e["PATH"] = Some("/usr/bin")
                /\ e["IDENTITY_ENDPOINT"] # Some("/usr/bin")
                /\ e["IMDS_ENDPOINT"] # Some("/usr/bin")}
Agents == {"ok", "refuses", "unreachable"}
Vaults == {"reachable", "unreachable"}
Hangs == {"none", "l8", "l13"}

---------------------------------------------------------------------------
(* Python semantics used by the script *)

RECURSIVE Count(_, _)
Count(s, x) == IF s = <<>> THEN 0
               ELSE (IF s[1] = x THEN 1 ELSE 0) + Count(Tail(s), x)

\* os.environ[k] = v
SetEnvDefault(env, k, v) == IF env[k] = None THEN [env EXCEPT ![k] = Some(v)] ELSE env
SetEnvOnly(env, k, v) == [j \in DOMAIN env |-> IF j = k THEN Some(v) ELSE None]
SetEnv(env, k, v) == [env EXCEPT ![k] = Some(v)]

\* "KeyVault secret is: " + value
FormatLineBare(v) == v
FormatLine(v) == Prefix \o v

\* print(text): the text and a line terminator, once
PrintTwice(out, text) == out \o text \o <<"\n">> \o text \o <<"\n">>
PrintTo(out, text) == out \o text \o <<"\n">>

\* exit status of the interpreter: 1 after an unhandled exception
ExitStatusZero(err) == 0
ExitStatus(err) == IF err = NoError THEN 0 ELSE 1

\* statements run top to bottom
NextPcSkipImds(l) == CASE l = "l5" -> "l8"
                       [] l = "l6" -> "l8"
                       [] l = "l8" -> "l11"
                       [] l = "l11" -> "l13"
                       [] l = "l13" -> "l14"
                       [] OTHER -> Exited
NextPc(l) == CASE l = "l5" -> "l6"
               [] l = "l6" -> "l8"
               [] l = "l8" -> "l11"
               [] l = "l11" -> "l13"
               [] l = "l13" -> "l14"
               [] OTHER -> Exited

\* nothing in the script catches an exception: the process ends at the raise
AfterRaiseSwallow(l) == NextPc(l)
AfterRaiseBlock(l) == "blocked"
AfterRaiseRetry(l) == IF Count(trace, l) = 0 THEN l ELSE Exited
AfterRaise(l) == Exited

\* the default excepthook reports the exception type; no program value
Traceback(err) == <<err>>

---------------------------------------------------------------------------
(* The external services, as seen through the two client libraries *)

\* outcomes of asking the identity agent for a token with this credential
TokenOutcomes(cred) ==
    IF cred.identity_endpoint = Some(IdentityUrl) /\ cred.imds_endpoint = Some(ImdsUrl)
    THEN CASE agent = "ok" -> {NoError}
           [] agent = "refuses" -> {"AuthenticationError"}
           [] OTHER -> {"AuthenticationError", "NetworkError"}
    ELSE {"AuthenticationError", "NetworkError"}

\* outcomes of the request for `name` sent by `client`
RequestOutcomes(client, name) ==
    LET tok == IF client.credential = None THEN {"AuthenticationError"}
               ELSE TokenOutcomes(client.credential[1])
        net == IF vault = "reachable" /\ client.vault_url = VaultUrl
               THEN {} ELSE {"NetworkError"}
        bad == (tok \ {NoError}) \cup net
    IN  IF bad # {} THEN bad
        ELSE IF name = SecretName /\ stored # None THEN {NoError}
        ELSE {"NotFoundError"}

---------------------------------------------------------------------------
(* Steps *)

\* normal completion of line l
Advance(l) ==
    /\ pc' = NextPc(l)
    /\ exit' = IF NextPc(l) = Exited THEN Some(ExitStatus(NoError)) ELSE exit
    /\ UNCHANGED <<raised, stderr>>

\* exception err raised at line l and not caught
Unhandled(l, err) ==
    /\ raised' = err
    /\ stderr' = stderr \o Traceback(err)
    /\ pc' = AfterRaise(l)
    /\ exit' = IF AfterRaise(l) = Exited THEN Some(ExitStatus(err)) ELSE exit

World == <<agent, vault, stored, hangAt, runNo, prev, environ0>>

\* line 5
SetIdentityEndpoint ==
    /\ pc = "l5"
    /\ trace' = Append(trace, "l5")
    /\ environ' = SetEnv(environ, "IDENTITY_ENDPOINT", IdentityUrl)
    /\ Advance("l5")
    /\ UNCHANGED <<credentials, secret_client, secret, stdout, World>>

\* line 6
SetImdsEndpoint ==
    /\ pc = "l6"
    /\ trace' = Append(trace, "l6")
    /\ environ' = SetEnv(environ, "IMDS_ENDPOINT", ImdsUrl)
    /\ Advance("l6")
    /\ UNCHANGED <<credentials, secret_client, secret, stdout, World>>

\* line 8: the credential reads the two endpoints from os.environ.  Whether
\* the library contacts the agent here or at first use is the library's
\* business: a failing agent may surface here or at line 13.
CreateCredential ==
    /\ pc = "l8"
    /\ hangAt # "l8"
    /\ trace' = Append(trace, "l8")
    /\ LET cred == [identity_endpoint |-> environ["IDENTITY_ENDPOINT"],
                    imds_endpoint |-> environ["IMDS_ENDPOINT"]]
       IN  \/ /\ credentials' = Some(cred)
              /\ Advance("l8")
           \/ /\ \E err \in TokenOutcomes(cred) \ {NoError} : Unhandled("l8", err)
              /\ UNCHANGED credentials
    /\ UNCHANGED <<environ, secret_client, secret, stdout, World>>

\* line 11
CreateClient ==
    /\ pc = "l11"
    /\ trace' = Append(trace, "l11")
    /\ IF credentials = None
       THEN /\ Unhandled("l11", "NameError")
            /\ UNCHANGED secret_client
       ELSE /\ secret_client' = Some([vault_url |-> VaultUrl, credential |-> credentials])
            /\ Advance("l11")
    /\ UNCHANGED <<environ, credentials, secret, stdout, World>>

\* line 13
GetSecret ==
    /\ pc = "l13"
    /\ hangAt # "l13"
    /\ trace' = Append(trace, "l13")
    /\ IF secret_client = None
       THEN /\ Unhandled("l13", "NameError")
            /\ UNCHANGED secret
       ELSE \E r \in RequestOutcomes(secret_client[1], SecretName) :
              IF r = NoError
              THEN /\ secret' = Some([name |-> SecretName, value |-> stored[1]])
                   /\ Advance("l13")
              ELSE /\ Unhandled("l13", r)
                   /\ UNCHANGED secret
    /\ UNCHANGED <<environ, credentials, secret_client, stdout, World>>

\* line 14
PrintSecret ==
    /\ pc = "l14"
    /\ trace' = Append(trace, "l14")
    /\ IF secret = None
       THEN /\ Unhandled("l14", "NameError")
            /\ UNCHANGED stdout
       ELSE IF secret[1].value = None
       THEN /\ Unhandled("l14", "TypeError")
            /\ UNCHANGED stdout
       ELSE /\ stdout' = PrintTo(stdout, FormatLine(secret[1].value[1]))
            /\ Advance("l14")
    /\ UNCHANGED <<environ, credentials, secret_client, secret, World>>

\* what one finished invocation looked like from outside
RunRecord == [agent |-> agent, vault |-> vault, stored |-> stored,
              env0 |-> environ0, out |-> stdout, status |-> exit]

\* a process at `at` with environment env, nothing executed, nothing bound
Fresh(p, e, e0, c, sc, s, out, err, r, x, t, at, env) ==
    /\ p = at
    /\ e = env
    /\ e0 = env
    /\ c = None
    /\ sc = None
    /\ s = None
    /\ out = <<>>
    /\ err = <<>>
    /\ r = NoError
    /\ x = None
    /\ t = <<>>

Init ==
    /\ \E env \in Environs :
         Fresh(pc, environ, environ0, credentials, secret_client, secret,
               stdout, stderr, raised, exit, trace, "l5", env)
    /\ agent \in Agents
    /\ vault \in Vaults
    /\ stored \in Stored
    /\ hangAt \in Hangs
    /\ runNo = 1
    /\ prev = None

\* the finished process is collected and nothing of it remains; the
\* invocation may be remembered
Reap ==
    /\ pc = Exited
    /\ runNo < MaxRuns
    /\ prev' \in {prev, Some(RunRecord)}
    /\ Fresh(pc', environ', environ0', credentials', secret_client', secret',
             stdout', stderr', raised', exit', trace', "idle", environ0)
    /\ UNCHANGED <<agent, vault, stored, hangAt, runNo>>

\* between two invocations the services may change
WorldChange ==
    /\ pc = "idle"
    /\ \/ agent' \in Agents \ {agent} /\ UNCHANGED <<vault, stored, hangAt>>
       \/ vault' \in Vaults \ {vault} /\ UNCHANGED <<agent, stored, hangAt>>
       \/ stored' \in Stored \ {stored} /\ UNCHANGED <<agent, vault, hangAt>>
       \/ hangAt' \in Hangs \ {hangAt} /\ UNCHANGED <<agent, vault, stored>>
    /\ UNCHANGED <<pc, environ, credentials, secret_client, secret, stdout, stderr,
                   raised, exit, trace, environ0, runNo, prev>>

\* the script is invoked again, in a new process
Invoke ==
    /\ pc = "idle"
    /\ runNo' = runNo + 1
    /\ \E env \in Environs :
         Fresh(pc', environ', environ0', credentials', secret_client', secret',
               stdout', stderr', raised', exit', trace', "l5", env)
    /\ UNCHANGED <<agent, vault, stored, hangAt, prev>>

Step == \/ SetIdentityEndpoint
        \/ SetImdsEndpoint
        \/ CreateCredential
        \/ CreateClient
        \/ GetSecret
        \/ PrintSecret

Next == \/ SetIdentityEndpoint
        \/ SetImdsEndpoint
        \/ CreateCredential
        \/ CreateClient
        \/ GetSecret
        \/ PrintSecret
        \/ Reap
        \/ WorldChange
        \/ Invoke

Spec == Init /\ [][Next]_vars

\* the interpreter runs an enabled statement
FairSpec == Init /\ [][Next]_vars /\ WF_vars(Step)

---------------------------------------------------------------------------
(* Vocabulary of the properties *)

IsPrefix(s, t) == Len(s) <= Len(t) /\ \A i \in 1..Len(s) : s[i] = t[i]

\* the newline-terminated lines of a text
RECURSIVE SplitFrom(_, _, _)
SplitFrom(text, i, cur) ==
    IF i > Len(text) THEN <<>>
    ELSE IF text[i] = "\n" THEN <<cur>> \o SplitFrom(text, i + 1, <<>>)
    ELSE SplitFrom(text, i + 1, Append(cur, text[i]))
SplitLines(text) == SplitFrom(text, 1, <<>>)

Healthy == agent = "ok" /\ vault = "reachable"
HasString == stored # None /\ stored[1] # None
Failed == exit # None /\ exit # Some(0)
Running == pc \notin {Exited, "idle"}
Blocked == (pc = "l8" /\ hangAt = "l8") \/ (pc = "l13" /\ hangAt = "l13")
KeyVaultSecretIs == <<"K","e","y","V","a","u","l","t"," ","s","e","c","r","e","t"," ","i","s",":"," ">>

---------------------------------------------------------------------------
(* C1 *)

\* C1 as stated: whenever the agent issues a credential and the vault returns
\* the secret with value v, the finished run has written exactly one line,
\* "KeyVault secret is: " followed by v, and exited with status 0.
C1_OneLineForEveryValue ==
    (pc = Exited /\ Healthy /\ HasString) =>
        /\ SplitLines(stdout) = <<KeyVaultSecretIs \o stored[1][1]>>
        /\ exit = Some(0)

\* C1 amended: whenever the agent issues a credential and the vault returns
\* the secret with value v, the finished run has written exactly the text
\* "KeyVault secret is: " followed by v and one line terminator, and exited
\* with status 0; that text is exactly one line when v holds no line break.
C1_PrintsValueExitsZero ==
    (pc = Exited /\ Healthy /\ HasString) =>
        /\ stdout = KeyVaultSecretIs \o stored[1][1] \o <<"\n">>
        /\ exit = Some(0)
        /\ Count(stored[1][1], "\n") = 0 =>
               SplitLines(stdout) = <<KeyVaultSecretIs \o stored[1][1]>>

C1_Witness ==
    /\ pc = Exited /\ Healthy
    /\ stored = Some(Some(<<"h", "i">>))
    /\ Len(stdout) = Len(KeyVaultSecretIs) + 3

---------------------------------------------------------------------------
(* C2 *)

\* C2: while the identity agent is unreachable or refuses to issue a
\* credential, nothing is ever written to standard output, and a finished run
\* has failed with AuthenticationError or NetworkError and a non-zero status.
C2_AgentFailure ==
    agent # "ok" =>
        /\ stdout = <<>>
        /\ pc = Exited =>
              /\ raised \in {"AuthenticationError", "NetworkError"}
              /\ Failed

C2_Witness ==
    /\ pc = Exited /\ agent = "unreachable" /\ raised = "NetworkError"
    /\ vault = "reachable" /\ HasString

---------------------------------------------------------------------------
(* C3 *)

\* C3: when the credential is issued and the vault is reachable but holds no
\* secret of the requested name, line 14 (the print) is never executed, and a
\* finished run has failed with NotFoundError and a non-zero status.
C3_MissingSecret ==
    (Healthy /\ stored = None) =>
        /\ Count(trace, "l14") = 0
        /\ stdout = <<>>
        /\ pc = Exited => (raised = "NotFoundError" /\ Failed)

C3_Witness ==
    /\ pc = Exited /\ Healthy /\ stored = None
    /\ raised = "NotFoundError" /\ Count(trace, "l13") = 1

---------------------------------------------------------------------------
(* C4 *)

\* C4: in every state the print has run at most once, standard output is
\* empty or exactly the one designated text built from the retrieved value,
\* standard error holds only exception reports, and the environment holds
\* only its initial values and the two endpoint literals.
C4_SingleEmission ==
    /\ Count(trace, "l14") <= 1
    /\ \/ stdout = <<>>
       \/ /\ secret # None /\ secret[1].value # None
          /\ stdout = KeyVaultSecretIs \o secret[1].value[1] \o <<"\n">>
    /\ \A i \in 1..Len(stderr) :
          stderr[i] \in {"AuthenticationError", "NetworkError", "NotFoundError", "TypeError"}
    /\ \A k \in EnvKeys :
          environ[k] \in {environ0[k], Some(IdentityUrl), Some(ImdsUrl)}

C4_Witness ==
    /\ pc = Exited /\ stdout # <<>> /\ Count(trace, "l14") = 1
    /\ secret[1].value = Some(<<"a", "\n", "b">>)

---------------------------------------------------------------------------
(* C5 *)

\* C5: a finished invocation and any remembered earlier one that met the same
\* agent, the same vault and the same stored secret have the same standard
\* output and the same exit status, whatever the two endpoint variables held
\* when each process started.
C5_Idempotent ==
    (pc = Exited /\ prev # None) =>
        ((prev[1].agent = agent /\ prev[1].vault = vault /\ prev[1].stored = stored)
            => (prev[1].out = stdout /\ prev[1].status = exit))

C5_Witness ==
    /\ pc = Exited /\ prev # None
    /\ prev[1].agent = agent /\ prev[1].vault = vault /\ prev[1].stored = stored
    /\ prev[1].env0 # environ0
    /\ stdout # <<>>

---------------------------------------------------------------------------
(* C6 *)

\* C6: the credential is constructed at most once and the secret requested at
\* most once; once an exception has been raised it is the only one reported,
\* the process has exited and no step of the flow is enabled; a finished run
\* has either printed the secret and exited 0 or printed nothing and exited
\* non-zero.
C6_NoRetryAllOrNothing ==
    /\ Count(trace, "l8") <= 1
    /\ Count(trace, "l13") <= 1
    /\ raised # NoError =>
          /\ pc = Exited
          /\ stderr = <<raised>>
          /\ ~ENABLED Step
    /\ pc = Exited =>
          \/ /\ raised = NoError /\ exit = Some(0)
             /\ secret # None /\ secret[1].value # None
             /\ stdout = KeyVaultSecretIs \o secret[1].value[1] \o <<"\n">>
          \/ /\ raised # NoError /\ Failed
             /\ stdout = <<>>

C6_Witness ==
    /\ pc = Exited /\ raised = "NotFoundError"
    /\ trace = <<"l5", "l6", "l8", "l11", "l13">>

---------------------------------------------------------------------------
(* C8 *)

\* C8: the lines executed are always an initial part of 5, 6, 8, 11, 13, 14;
\* a credential exists only bound to both endpoint literals, a client only
\* with that credential, a secret only with a client, and output only with a
\* secret and no exception.
C8_LinearOrder ==
    /\ IsPrefix(trace, Lines)
    /\ Running => (Len(trace) < Len(Lines) /\ pc = Lines[Len(trace) + 1])
    /\ credentials # None =>
          /\ credentials[1].identity_endpoint =
                Some("http://localhost:40342/metadata/identity/oauth2/token")
          /\ credentials[1].imds_endpoint = Some("http://localhost:40342")
    /\ secret_client # None =>
          (credentials # None /\ secret_client[1].credential = credentials)
    /\ secret # None => secret_client # None
    /\ stdout # <<>> => (secret # None /\ raised = NoError)

C8_Witness == pc = Exited /\ trace = Lines /\ stdout # <<>>

---------------------------------------------------------------------------
(* C9 *)

\* C9: every run eventually exits or is blocked in one of the two external
\* calls; a run blocked in a call stays at that call for ever with nothing
\* printed; an exited run has status 0 and has printed, or has a non-zero
\* status and an unhandled exception.
C9_Termination ==
    /\ Running ~> (pc = Exited \/ Blocked)
    /\ [](Blocked => [](Blocked /\ stdout = <<>>))
    /\ [](pc = Exited =>
            \/ (exit = Some(0) /\ stdout # <<>>)
            \/ (Failed /\ raised # NoError /\ stderr # <<>>))

C9_Witness == Blocked /\ pc = "l13" /\ Healthy /\ HasString /\ runNo = MaxRuns

---------------------------------------------------------------------------
(* C10 *)

\* C10: once line 5 has run IDENTITY_ENDPOINT is its literal, once line 6 has
\* run IMDS_ENDPOINT is its literal, whatever they held before; every other
\* variable, and each of the two before its line has run, keeps its initial
\* value; the client's vault URL and the requested name are the literals.
C10_EnvOverwrite ==
    /\ environ["IDENTITY_ENDPOINT"] =
          IF Count(trace, "l5") > 0
          THEN Some("http://localhost:40342/metadata/identity/oauth2/token")
          ELSE environ0["IDENTITY_ENDPOINT"]
    /\ environ["IMDS_ENDPOINT"] =
          IF Count(trace, "l6") > 0
          THEN Some("http://localhost:40342")
          ELSE environ0["IMDS_ENDPOINT"]
    /\ \A k \in EnvKeys \ {"IDENTITY_ENDPOINT", "IMDS_ENDPOINT"} :
          environ[k] = environ0[k]
    /\ secret_client # None =>
          secret_client[1].vault_url = "https://passwordless-arc-mi.vault.azure.net"
    /\ secret # None => secret[1].name = "my-onprem-secret"

C10_Witness ==
    /\ pc = Exited /\ stdout # <<>>
    /\ environ0["IDENTITY_ENDPOINT"] = Some("http://elsewhere")
    /\ environ0["IMDS_ENDPOINT"] = Some("http://elsewhere")

====
